---- MODULE Spec2Model ----
(***************************************************************************)
(* A model of ios_backup_message_archiver.py.                              *)
(*                                                                         *)
(* Python strings are modelled as sequences of one-character strings, so   *)
(* that prefix tests, lstrip, replace, split and join are computed the way *)
(* the interpreter computes them.  A nullable column (SQL NULL / Python    *)
(* None) is modelled as None == <<>> or Some(v) == <<v>>.                  *)
(***************************************************************************)
EXTENDS Integers, Sequences, FiniteSets, TLC

\* ------------------------------------------------------------------------
\* Python string primitives
\* ------------------------------------------------------------------------

None == <<>>

Some(v) == <<v>>

\* str.startswith(prefix)
StartsWith(s, p) == Len(s) >= Len(p) /\ SubSeq(s, 1, Len(p)) = p

RECURSIVE LStrip(_, _)
\* str.lstrip(chars): drops leading characters while they belong to chars
LStrip(s, chars) ==
    IF s # <<>> /\ Head(s) \in chars THEN LStrip(Tail(s), chars) ELSE s

\* the set of characters of a string (the argument of lstrip is a character set)
CharsOf(s) == {s[i] : i \in 1..Len(s)}

\* str.replace(c, '') for a one-character c
Remove(s, c) == SelectSeq(s, LAMBDA ch : ch # c)

RECURSIVE Join(_, _)
\* sep.join(parts)
Join(sep, parts) ==
    IF parts = <<>> THEN <<>>
    ELSE IF Len(parts) = 1 THEN parts[1]
    ELSE parts[1] \o sep \o Join(sep, Tail(parts))

RECURSIVE Split(_, _)
\* str.split(c) for a one-character separator c
Split(s, c) ==
    IF \A i \in 1..Len(s) : s[i] # c THEN <<s>>
    ELSE LET k == CHOOSE i \in 1..Len(s) : s[i] = c /\ \A j \in 1..(i - 1) : s[j] # c
         IN  <<SubSeq(s, 1, k - 1)>> \o Split(SubSeq(s, k + 1, Len(s)), c)

\* os.path.basename(path): what follows the last '/'
Basename(p) ==
    LET slashes == {i \in 1..Len(p) : p[i] = "/"}
    IN  IF slashes = {} THEN p
        ELSE LET k == CHOOSE i \in slashes : \A j \in slashes : j <= i
             IN  SubSeq(p, k + 1, Len(p))

\* all sequences over S of length at most n
RECURSIVE SeqsUpTo(_, _)
SeqsUpTo(S, n) ==
    IF n = 0 THEN {<<>>}
    ELSE LET shorter == SeqsUpTo(S, n - 1)
         IN  shorter \cup {Append(s, c) : s \in shorter, c \in S}

RECURSIVE Repeat(_, _)
Repeat(c, n) == IF n = 0 THEN <<>> ELSE <<c>> \o Repeat(c, n - 1)

\* ------------------------------------------------------------------------
\* Program constants
\* ------------------------------------------------------------------------

MAGIC_DATE_NUMBER == 978307200

NANOSECONDS == 1000000000

VarMobilePrefix == <<"/", "v", "a", "r", "/", "m", "o", "b", "i", "l", "e", "/">>

TildePrefix == <<"~", "/">>

MediaDomain == <<"M", "e", "d", "i", "a", "D", "o", "m", "a", "i", "n", "-">>

\* u'\xa0', the non-breaking space, as one character
NBSP == "\\xa0"

\* ------------------------------------------------------------------------
\* normalize_phone_number
\* ------------------------------------------------------------------------

normalize_phone_number(phone_number) ==
    LET p0 == IF StartsWith(phone_number, <<"+">>)
              THEN LStrip(phone_number, {"+"})
              ELSE phone_number
        p1 == Remove(Remove(p0, "("), ")")
        p2 == Remove(Remove(p1, "-"), ".")
        p3 == Remove(Remove(p2, " "), NBSP)
    IN  IF Len(p3) = 10 THEN <<"1">> \o p3 ELSE p3

\* ------------------------------------------------------------------------
\* convert_attachment_name
\* ------------------------------------------------------------------------

\* the string handed to hashlib.sha1
new_name(name) ==
    IF StartsWith(name, VarMobilePrefix)
    THEN MediaDomain \o LStrip(name, CharsOf(VarMobilePrefix))
    ELSE IF StartsWith(name, TildePrefix)
    THEN MediaDomain \o LStrip(name, CharsOf(TildePrefix))
    ELSE <<>>

\* log.warn('Bad data in the attachments table. ...') is reached
warns(name) == ~StartsWith(name, VarMobilePrefix) /\ ~StartsWith(name, TildePrefix)

HexDigits == <<"0", "1", "2", "3", "4", "5", "6", "7", "8", "9", "a", "b", "c", "d", "e", "f">>

\* the characters the digest distinguishes, by position
CodeTable ==
    <<"/", "~", "-", ".", "M", "e", "d", "i", "a", "D", "o", "m", "n",
      "v", "r", "b", "l", "L", "x", "j", "p", "g", "t">>

Code(c) == IF \E i \in 1..Len(CodeTable) : CodeTable[i] = c
           THEN CHOOSE i \in 1..Len(CodeTable) : CodeTable[i] = c
           ELSE 0

RECURSIVE Fold(_, _)
Fold(h, s) == IF s = <<>> THEN h ELSE Fold((h * 33 + Code(Head(s))) % 4096, Tail(s))

\* hashlib.sha1(s).hexdigest(): a deterministic digest of the whole string,
\* of fixed length, in lowercase hexadecimal, non-empty for the empty string.
\* SHA-1's 160 bits are cut to 12 bits (three hex digits).
sha1_hexdigest(s) ==
    LET h == Fold(2777, s)
    IN  <<HexDigits[(h \div 256) + 1], HexDigits[((h \div 16) % 16) + 1], HexDigits[(h % 16) + 1]>>

\* convert_attachment_name returning the empty string for an unrecognized path
convert_attachment_name_empty(name) ==
    IF warns(name) THEN <<>> ELSE sha1_hexdigest(new_name(name))

convert_attachment_name(name) == sha1_hexdigest(new_name(name))


\* ------------------------------------------------------------------------
\* State
\* ------------------------------------------------------------------------

VARIABLES
    \* normalize_phone_number applied to an input, then to its own output
    n_pc, phone_number, n_out, n_out2,
    \* convert_attachment_name applied to an input
    k_pc, name, k_new_name, k_hashed, k_warned,
    \* get_chat_coversations applied to a query result
    s_pc, result, s_conversations,
    \* main(): the two data stores and the backup directory it reads
    db,
    \* main(): the five maps of the extractor
    contacts_in_chat, handle_contact_map, conversations, attachments, contacts_map,
    \* main(): position, the conversations still to iterate, the current one
    pc, error, todo, id, msg_i,
    \* main(): the log, and the output directory (documents, directories, copies)
    log, docs, dirs, copied

normVars == <<n_pc, phone_number, n_out, n_out2>>

keyVars == <<k_pc, name, k_new_name, k_hashed, k_warned>>

scaleVars == <<s_pc, result, s_conversations>>

mapVars == <<contacts_in_chat, handle_contact_map, conversations, attachments, contacts_map>>

mainVars == <<db, mapVars, pc, error, todo, id, msg_i, log, docs, dirs, copied>>

vars == <<normVars, keyVars, scaleVars, mainVars>>

EmptyMap == [k \in {} |-> k]

\* dict[key].append(val), creating the list on the first use of key
AppendTo(map, key, val) ==
    IF key \in DOMAIN map
    THEN [map EXCEPT ![key] = Append(@, val)]
    ELSE map @@ (key :> <<val>>)

\* ------------------------------------------------------------------------
\* get_chat_coversations
\* ------------------------------------------------------------------------

SMS == <<"S", "M", "S">>

IMessage == <<"i", "M", "e", "s", "s", "a", "g", "e">>

\* scale_dates with the second test made the alternative of the first (elif)
scale_dates_elif(message_info) ==
    IF message_info.date > NANOSECONDS
    THEN [message_info EXCEPT !.date = message_info.date \div NANOSECONDS]
    ELSE IF message_info.date_read > NANOSECONDS
    THEN [message_info EXCEPT !.date_read = message_info.date_read \div NANOSECONDS]
    ELSE message_info

\* the two timestamp tests of the row loop; int(a / b) is Python 2 integer
\* division, taken only on values above NANOSECONDS
scale_dates(message_info) ==
    LET m1 == IF message_info.date > NANOSECONDS
              THEN [message_info EXCEPT !.date = message_info.date \div NANOSECONDS]
              ELSE message_info
    IN  IF m1.date_read > NANOSECONDS
        THEN [m1 EXCEPT !.date_read = m1.date_read \div NANOSECONDS]
        ELSE m1

RECURSIVE group_messages(_, _)
group_messages(grouped, rows) ==
    IF rows = <<>> THEN grouped
    ELSE LET message_info == scale_dates(Head(rows))
         IN  group_messages(AppendTo(grouped, message_info.chat_identifier, message_info),
                            Tail(rows))

get_chat_coversations(rows) == group_messages(EmptyMap, rows)

\* ------------------------------------------------------------------------
\* Inputs of the three function-level specifications
\* ------------------------------------------------------------------------

MaxNoise == 2

MaxDigits == 11

NoiseChars == {"+", "(", ")", "-", ".", " ", NBSP, "1"}

PhoneInputs ==
    {n \o Repeat("2", d) : n \in SeqsUpTo(NoiseChars, MaxNoise), d \in 0..MaxDigits}

MaxRest == 3

RestChars == {"m", "/", "~", "L", "x"}

PathPrefixes == {VarMobilePrefix, TildePrefix, <<>>, <<"/", "v", "a", "r", "/">>}

PathInputs == {p \o r : p \in PathPrefixes, r \in SeqsUpTo(RestChars, MaxRest)}

MaxRows == 2

DateValues == {0, 500000000, 1000000000, 1000000001, 2000000000}

ChatX == <<"c", "7">>

ChatY == <<"c", "8">>

\* the ROWID of a chat in the chat table
ChatRowId(chat_identifier) == IF chat_identifier = ChatX THEN 1 ELSE 2

MessageRow(message_id, chat, text, handle, service, date, date_read, from_me, is_read) ==
    [text |-> text, handle_id |-> handle, service |-> service, date |-> date,
     date_read |-> date_read, is_from_me |-> from_me, is_read |-> is_read,
     chat_id |-> ChatRowId(chat), message_id |-> message_id, chat_identifier |-> chat]

\* one row per message id, ascending (ORDER BY message_id ASC)
DatedRows(n) ==
    {r \in [1..n -> [chat : {ChatX, ChatY}, date : DateValues, date_read : DateValues]] : TRUE}

DatedResult(f) ==
    [i \in DOMAIN f |->
        MessageRow(i, f[i].chat, Some(<<"h">>), 1, IMessage, f[i].date, f[i].date_read, 0, 1)]

\* ------------------------------------------------------------------------
\* get_handle_to_contact, get_contacts_in_chat, get_message_attachments,
\* get_contacts_map
\* ------------------------------------------------------------------------

\* dict[key] = val
SetKey(map, key, val) ==
    [x \in (DOMAIN map) \cup {key} |-> IF x = key THEN val ELSE map[x]]

MeOrNull == <<"m", "e", "-", "o", "r", "-", "n", "u", "l", "l">>

RECURSIVE handle_rows_map(_, _)
handle_rows_map(map, rows) ==
    IF rows = <<>> THEN map
    ELSE LET contact == Head(rows).id
             stripped == IF StartsWith(contact, <<"+">>) THEN LStrip(contact, {"+"}) ELSE contact
         IN  handle_rows_map(SetKey(map, Head(rows).ROWID, stripped), Tail(rows))

get_handle_to_contact(rows) ==
    LET handle_map == handle_rows_map(EmptyMap, rows)
    IN  IF 0 \notin DOMAIN handle_map \/ handle_map[0] = <<>>
        THEN SetKey(handle_map, 0, MeOrNull)
        ELSE handle_map

RECURSIVE chat_rows_map(_, _)
chat_rows_map(map, rows) ==
    IF rows = <<>> THEN map
    ELSE chat_rows_map(AppendTo(map, Head(rows).chat_identifier, Head(rows).handle_id), Tail(rows))

get_contacts_in_chat(rows) == chat_rows_map(EmptyMap, rows)

RECURSIVE attachment_rows_map(_, _)
attachment_rows_map(map, rows) ==
    IF rows = <<>> THEN map
    ELSE LET attachment_info == Head(rows)
             attachment_filename == convert_attachment_name(attachment_info.filename)
             orig_filename == Basename(attachment_info.filename)
         IN  attachment_rows_map(
                 AppendTo(map, attachment_info.message_id, <<attachment_filename, orig_filename>>),
                 Tail(rows))

get_message_attachments(rows) == attachment_rows_map(EmptyMap, rows)

\* the warnings convert_attachment_name logs while the attachment rows are read
RECURSIVE attachment_warnings(_)
attachment_warnings(rows) ==
    IF rows = <<>> THEN <<>>
    ELSE (IF warns(Head(rows).filename)
          THEN <<[level |-> "warning", message_id |-> Head(rows).message_id,
                  text |-> Head(rows).filename]>>
          ELSE <<>>) \o attachment_warnings(Tail(rows))

\* the name stored for one row of the contacts store: 'First Last' from the
\* parts that are not NULL, else the organization column as it is (NULL or not)
row_contact(first, last, org) ==
    LET names == (IF first # None THEN <<first[1]>> ELSE <<>>)
                 \o (IF last # None THEN <<last[1]>> ELSE <<>>)
    IN  IF names = <<>> THEN org ELSE Some(Join(<<" ">>, names))

RECURSIVE email_rows_map(_, _)
email_rows_map(map, rows) ==
    IF rows = <<>> THEN map
    ELSE email_rows_map(
             SetKey(map, Head(rows).value, row_contact(Head(rows).first, Head(rows).last, Head(rows).org)),
             Tail(rows))

RECURSIVE phone_rows_map(_, _)
phone_rows_map(map, rows) ==
    IF rows = <<>> THEN map
    ELSE phone_rows_map(
             SetKey(map, normalize_phone_number(Head(rows).value),
                    row_contact(Head(rows).first, Head(rows).last, Head(rows).org)),
             Tail(rows))

get_contacts_map(email_rows, phone_rows) ==
    phone_rows_map(email_rows_map(EmptyMap, email_rows), phone_rows)

\* ------------------------------------------------------------------------
\* main(): the conversation loop
\* ------------------------------------------------------------------------

\* contacts_map.get(contact, contact): the stored value (which may be None)
\* when the key is present, the key itself otherwise
resolve(contact) ==
    IF contact \in DOMAIN contacts_map THEN contacts_map[contact] ELSE Some(contact)

\* '%s' % value
Str(value) == IF value = None THEN <<"N", "o", "n", "e">> ELSE value[1]

\* list_set without the set: the list as it is
list_set_keep(xs) == {xs}

\* list(set(xs)): the elements of xs once each, in an order the hash table decides
list_set(xs) ==
    LET S == {xs[i] : i \in 1..Len(xs)}
    IN  {f \in [1..Cardinality(S) -> S] : \A a, b \in 1..Cardinality(S) : f[a] = f[b] => a = b}

\* name_separator as a dash
name_separator_dash == <<"-">>

\* the character joining the participant names in the file base name
name_separator == <<"_">>

\* '%s_%s' % (id, '_'.join(['-'.join(contact.split(' ')) for contact in chat_contacts]))
filebase_of(cid, chat_contacts) ==
    cid \o <<"_">>
        \o Join(name_separator,
                [i \in 1..Len(chat_contacts) |-> Join(<<"-">>, Split(chat_contacts[i][1], " "))])

HtmlExt == <<".", "h", "t", "m", "l">>

\* u'\xe9', a character outside ASCII
EACUTE == "\\xe9"

\* file.write(unicode) encodes with the ascii codec
IsAscii(s) == \A i \in 1..Len(s) : s[i] # EACUTE /\ s[i] # NBSP

UpperCase == <<"A", "B", "C", "D", "E", "F", "G", "H", "I", "J", "K", "L", "M",
               "N", "O", "P", "Q", "R", "S", "T", "U", "V", "W", "X", "Y", "Z">>

LowerCase == <<"a", "b", "c", "d", "e", "f", "g", "h", "i", "j", "k", "l", "m",
               "n", "o", "p", "q", "r", "s", "t", "u", "v", "w", "x", "y", "z">>

\* str.lower()
Lower(s) ==
    [i \in 1..Len(s) |->
        IF \E u \in 1..26 : UpperCase[u] = s[i]
        THEN LowerCase[CHOOSE u \in 1..26 : UpperCase[u] = s[i]]
        ELSE s[i]]

ImageExtensions ==
    {<<"j", "p", "e", "g">>, <<"j", "p", "g">>, <<"p", "n", "g">>, <<"g", "i", "f">>, <<"s", "v", "g">>}

NoText == <<"[", "n", "o", " ", "t", "e", "x", "t", "]">>

Part(cls, tag, time, strs) == [cls |-> cls, tag |-> tag, time |-> time, strs |-> strs]

\* os.access(os.path.join(backup_dir, ...), os.F_OK)
exists(path) == path \in db.backup

\* attachment_filename[0:2]
first_two(s) == SubSeq(s, 1, IF Len(s) < 2 THEN Len(s) ELSE 2)

RECURSIVE attachment_parts_break(_, _)
\* attachment_parts leaving the attachment loop at the first missing file
attachment_parts_break(list, filebase) ==
    IF list = <<>> THEN [parts |-> <<>>, copies |-> {}]
    ELSE LET attachment_filename == Head(list)[1]
             unique_filename == attachment_filename \o <<"-">> \o Head(list)[2]
             flat == <<attachment_filename>>
             nested == <<first_two(attachment_filename), attachment_filename>>
             rest == attachment_parts_break(Tail(list), filebase)
             file_link == filebase \o <<"/">> \o unique_filename
         IN  IF ~exists(flat) /\ ~exists(nested)
             THEN [parts |-> <<Part("attachment", "missing", 0, <<unique_filename>>)>>,
                   copies |-> {}]
             ELSE [parts |-> <<Part("attachment", "link", 0, <<file_link, unique_filename>>)>>
                             \o rest.parts,
                   copies |-> {[dir |-> filebase, name |-> unique_filename,
                                from |-> IF exists(flat) THEN flat ELSE nested]}
                              \cup rest.copies]

RECURSIVE attachment_parts(_, _)
\* the attachment loop of one message: the parts appended and the files copied
attachment_parts(list, filebase) ==
    IF list = <<>> THEN [parts |-> <<>>, copies |-> {}]
    ELSE LET attachment_filename == Head(list)[1]
             true_filename == Head(list)[2]
             unique_filename == attachment_filename \o <<"-">> \o true_filename
             flat == <<attachment_filename>>
             nested == <<first_two(attachment_filename), attachment_filename>>
             rest == attachment_parts(Tail(list), filebase)
             file_link == filebase \o <<"/">> \o unique_filename
             pieces == Split(unique_filename, ".")
             is_image == Lower(pieces[Len(pieces)]) \in ImageExtensions
         IN  IF ~exists(flat) /\ ~exists(nested)
             THEN [parts |-> <<Part("attachment", "missing", 0, <<unique_filename>>)>> \o rest.parts,
                   copies |-> rest.copies]
             ELSE [parts |-> (IF is_image
                              THEN <<Part("attachment", "img", 0, <<file_link>>)>>
                              ELSE <<>>)
                             \o <<Part("attachment", "link", 0, <<file_link, unique_filename>>)>>
                             \o rest.parts,
                   copies |-> {[dir |-> filebase, name |-> unique_filename,
                                from |-> IF exists(flat) THEN flat ELSE nested]}
                              \cup rest.copies]

\* the sender lookup of a received message raises KeyError
sender_raises(message) ==
    message.is_from_me = 0 /\ message.handle_id \notin DOMAIN handle_contact_map

sender_part(message) ==
    IF message.is_from_me # 0
    THEN Part("sender_me", "", 0, <<message.service>>)
    ELSE LET contact == handle_contact_map[message.handle_id]
             contact_name == resolve(contact)
         IN  Part("sender_them", "", 0, <<Str(contact_name), contact, message.service>>)

\* the sent time is kept as the epoch seconds handed to time.localtime
text_part(message) ==
    IF message.text = None
    THEN Part("text", "none", MAGIC_DATE_NUMBER + message.date, <<NoText>>)
    ELSE Part("text", "", MAGIC_DATE_NUMBER + message.date,
              <<Join(<<"<", "b", "r", ">">>, Split(message.text[1], "\n"))>>)

\* read_parts without the test of the service
read_parts_any_service(message) ==
    IF message.is_read = 1 /\ message.date_read # 0
    THEN <<Part("readtime", "", MAGIC_DATE_NUMBER + message.date_read, <<>>)>>
    ELSE <<>>

read_parts(message) ==
    IF message.service = IMessage /\ message.is_read = 1 /\ message.date_read # 0
    THEN <<Part("readtime", "", MAGIC_DATE_NUMBER + message.date_read, <<>>)>>
    ELSE <<>>

\* after_except with the try block around the whole loop: the loop is left
after_except_leave(i, n) == n + 1

\* the index of the message the loop goes on with after the except clause
after_except(i, n) == i + 1

Chunk(kind, message_id, title, parts) ==
    [kind |-> kind, message_id |-> message_id, title |-> title, parts |-> parts]

\* ------------------------------------------------------------------------
\* Inputs of the run: the messages store, the contacts store, the backup
\* ------------------------------------------------------------------------

MaxMsgs == 3

HandleRows ==
    <<[ROWID |-> 1, id |-> <<"+", "1", "5">>],
      [ROWID |-> 2, id |-> <<"1", "5">>],
      [ROWID |-> 3, id |-> <<"e", "@", "x">>]>>

\* a handle id no row of the handle table has
UnknownHandle == 9

ChatHandleRow(chat, handle) ==
    [chat_id |-> ChatRowId(chat), handle_id |-> handle, chat_identifier |-> chat]

\* the participants of ChatX: two handles of one number, a number and an
\* address, a handle missing from the handle table, no row at all
ParticipantsOfX == {<<1, 2>>, <<1, 3>>, <<UnknownHandle>>, <<>>}

ChatHandleJoin(hs) ==
    [i \in 1..Len(hs) |-> ChatHandleRow(ChatX, hs[i])] \o <<ChatHandleRow(ChatY, 3)>>

TextHK == <<"h", "\n", "k">>

MessageKinds == {"received", "from_me", "unknown_sender"}

KindRow(kind, i) ==
    IF kind = "received" THEN MessageRow(i, ChatX, Some(TextHK), 1, SMS, 5, 7, 0, 1)
    ELSE IF kind = "from_me" THEN MessageRow(i, ChatX, None, 0, IMessage, 5, 7, 1, 1)
    ELSE MessageRow(i, ChatX, Some(<<"h">>), UnknownHandle, IMessage, 5, 0, 0, 0)

\* ChatX holds messages 1..n, ChatY the message after them
MessageRows(kinds) ==
    [i \in 1..Len(kinds) |-> KindRow(kinds[i], i)]
        \o <<MessageRow(Len(kinds) + 1, ChatY, Some(<<"h">>), 3, IMessage, 5, 0, 0, 1)>>

GoodPath == VarMobilePrefix \o <<"L", "/", "p", ".", "j", "p", "g">>

BadPath == <<"/", "t">>

AttachmentRow(message_id, attachment_id, filename) ==
    [message_id |-> message_id, attachment_id |-> attachment_id,
     ROWID |-> attachment_id, filename |-> filename]

AttachmentTables ==
    {<<>>,
     <<AttachmentRow(1, 1, BadPath)>>,
     <<AttachmentRow(1, 1, GoodPath), AttachmentRow(1, 2, BadPath)>>}

GoodKey == convert_attachment_name(GoodPath)

BadKey == convert_attachment_name(BadPath)

BackupStores ==
    {{},
     {<<GoodKey>>},
     {<<first_two(GoodKey), GoodKey>>, <<BadKey>>}}

PersonRow(value, first, last, org) ==
    [value |-> value, first |-> first, last |-> last, org |-> org]

NameA == Some(<<"A">>)

NameB == Some(<<"B">>)

PhoneValue == <<"+", "1", " ", "(", "5", ")">>

EmailValue == <<"e", "@", "x">>

\* the contacts store: the address rows (property 4) and the number rows (property 3)
ContactStores ==
    {[email |-> <<>>, phone |-> <<>>],
     [email |-> <<PersonRow(EmailValue, NameA, NameB, None)>>,
      phone |-> <<PersonRow(PhoneValue, NameA, NameB, None)>>],
     [email |-> <<>>,
      phone |-> <<PersonRow(PhoneValue, None, None, Some(<<"O", " ", "C">>))>>],
     [email |-> <<PersonRow(EmailValue, NameA, None, None)>>,
      phone |-> <<PersonRow(PhoneValue, None, None, None)>>],
     [email |-> <<PersonRow(EmailValue, None, None, None)>>,
      phone |-> <<PersonRow(PhoneValue, Some(<<EACUTE>>), None, None)>>]}

\* ------------------------------------------------------------------------
\* Specification Spec: one run of main()
\* ------------------------------------------------------------------------

MainInit ==
    /\ \E hs \in ParticipantsOfX, ks \in (SeqsUpTo(MessageKinds, MaxMsgs) \ {<<>>}),
          ats \in AttachmentTables, bs \in BackupStores, cs \in ContactStores :
          db = [handle |-> HandleRows, chat_handle_join |-> ChatHandleJoin(hs),
                message |-> MessageRows(ks), attachment |-> ats,
                ab_email |-> cs.email, ab_phone |-> cs.phone, backup |-> bs]
    /\ contacts_in_chat = EmptyMap
    /\ handle_contact_map = EmptyMap
    /\ conversations = EmptyMap
    /\ attachments = EmptyMap
    /\ contacts_map = EmptyMap
    /\ pc = "start"
    /\ error = "none"
    /\ todo = {}
    /\ id = <<>>
    /\ msg_i = 0
    /\ log = <<>>
    /\ docs = EmptyMap
    /\ dirs = {}
    /\ copied = {}

\* ------------------------------------------------------------------------
\* Specification SpecRender: a run of main() over one conversation of two
\* messages, the second with attachments
\* ------------------------------------------------------------------------

MaxAtt == 2

\* a path whose file is no image
OtherPath == TildePrefix \o <<"d", ".", "t">>

OtherKey == convert_attachment_name(OtherPath)

AttachedPaths == {GoodPath, OtherPath}

\* the attachment rows of message 2, in the order of the join
AttachmentsOf2(paths) == [i \in 1..Len(paths) |-> AttachmentRow(2, i, paths[i])]

\* a backup directory holding each key flat, nested, both ways or not at all
StoresOver(keys) ==
    {flat \cup nested :
        flat \in SUBSET {<<k>> : k \in keys},
        nested \in SUBSET {<<first_two(k), k>> : k \in keys}}

ReadDates == {0, 7, 2000000000}

RenderInit ==
    /\ \E paths \in SeqsUpTo(AttachedPaths, MaxAtt), bs \in StoresOver({GoodKey, OtherKey}),
          service \in {SMS, IMessage}, is_read \in {0, 1}, date_read \in ReadDates,
          from_me \in {0, 1} :
          db = [handle |-> HandleRows, chat_handle_join |-> ChatHandleJoin(<<1, 2>>),
                message |-> <<MessageRow(1, ChatX, Some(TextHK), 0, SMS, 5, 7, 1, 1),
                              MessageRow(2, ChatX, None, IF from_me = 1 THEN 0 ELSE 1,
                                         service, 5, date_read, from_me, is_read)>>,
                attachment |-> AttachmentsOf2(paths),
                ab_email |-> <<>>, ab_phone |-> <<>>, backup |-> bs]
    /\ contacts_in_chat = EmptyMap
    /\ handle_contact_map = EmptyMap
    /\ conversations = EmptyMap
    /\ attachments = EmptyMap
    /\ contacts_map = EmptyMap
    /\ pc = "start"
    /\ error = "none"
    /\ todo = {}
    /\ id = <<>>
    /\ msg_i = 0
    /\ log = <<>>
    /\ docs = EmptyMap
    /\ dirs = {}
    /\ copied = {}

MainIdle ==
    /\ db = EmptyMap
    /\ contacts_in_chat = EmptyMap
    /\ handle_contact_map = EmptyMap
    /\ conversations = EmptyMap
    /\ attachments = EmptyMap
    /\ contacts_map = EmptyMap
    /\ pc = "idle"
    /\ error = "none"
    /\ todo = {}
    /\ id = <<>>
    /\ msg_i = 0
    /\ log = <<>>
    /\ docs = EmptyMap
    /\ dirs = {}
    /\ copied = {}

others == <<normVars, keyVars, scaleVars>>

\* the five reads of the two stores
Extract ==
    /\ pc = "start"
    /\ contacts_in_chat' = get_contacts_in_chat(db.chat_handle_join)
    /\ handle_contact_map' = get_handle_to_contact(db.handle)
    /\ conversations' = get_chat_coversations(db.message)
    /\ attachments' = get_message_attachments(db.attachment)
    /\ contacts_map' = get_contacts_map(db.ab_email, db.ab_phone)
    /\ log' = log \o attachment_warnings(db.attachment)
    /\ todo' = DOMAIN get_chat_coversations(db.message)
    /\ pc' = "loop"
    /\ UNCHANGED <<db, error, id, msg_i, docs, dirs, copied, others>>

Crash(exception) ==
    /\ pc' = "crashed"
    /\ error' = exception

\* the head of the conversation loop: participants, names, directory, header
StartConversation ==
    /\ pc = "loop"
    /\ \E cid \in todo :
        IF cid \notin DOMAIN contacts_in_chat
           \/ \E i \in 1..Len(contacts_in_chat[cid]) :
                 contacts_in_chat[cid][i] \notin DOMAIN handle_contact_map
        THEN /\ Crash("KeyError")
             /\ UNCHANGED <<id, msg_i, docs, dirs>>
        ELSE \E chat_contacts \in
                  list_set([i \in 1..Len(contacts_in_chat[cid]) |->
                               resolve(handle_contact_map[contacts_in_chat[cid][i]])]) :
             IF \E i \in 1..Len(chat_contacts) : chat_contacts[i] = None
             THEN /\ Crash("AttributeError")
                  /\ UNCHANGED <<id, msg_i, docs, dirs>>
             ELSE LET filebase == filebase_of(cid, chat_contacts)
                      title == [i \in 1..Len(chat_contacts) |-> chat_contacts[i][1]]
                      doc == [filebase |-> filebase, filename |-> filebase \o HtmlExt,
                              chunks |-> <<>>]
                  IN  IF filebase \in dirs
                      THEN /\ Crash("OSError")
                           /\ UNCHANGED <<id, msg_i, docs, dirs>>
                      ELSE IF \E i \in 1..Len(title) : ~IsAscii(title[i])
                      THEN /\ Crash("UnicodeEncodeError")
                           /\ dirs' = dirs \cup {filebase}
                           /\ docs' = SetKey(docs, cid, doc)
                           /\ UNCHANGED <<id, msg_i>>
                      ELSE /\ dirs' = dirs \cup {filebase}
                           /\ docs' = SetKey(docs, cid,
                                  [doc EXCEPT !.chunks = <<Chunk("start", 0, title, <<>>)>>])
                           /\ id' = cid
                           /\ msg_i' = 1
                           /\ pc' = "messages"
                           /\ error' = error
    /\ UNCHANGED <<db, mapVars, todo, log, copied, others>>

\* one pass of the message loop: the try block and its except clause
ProcessMessage ==
    /\ pc = "messages"
    /\ msg_i <= Len(conversations[id])
    /\ LET message == conversations[id][msg_i]
           n == Len(conversations[id])
       IN  IF sender_raises(message)
           THEN /\ log' = Append(log, [level |-> "exception", message_id |-> message.message_id,
                                       text |-> <<>>])
                /\ msg_i' = after_except(msg_i, n)
                /\ UNCHANGED <<docs, copied>>
           ELSE LET att == IF message.message_id \in DOMAIN attachments
                           THEN attachment_parts(attachments[message.message_id], docs[id].filebase)
                           ELSE [parts |-> <<>>, copies |-> {}]
                    message_parts == <<sender_part(message), text_part(message)>>
                                     \o att.parts \o read_parts(message)
                IN  /\ copied' = copied \cup att.copies
                    /\ docs' = [docs EXCEPT ![id].chunks =
                                   Append(@, Chunk("message", message.message_id, <<>>, message_parts))]
                    /\ msg_i' = msg_i + 1
                    /\ log' = log
    /\ UNCHANGED <<db, mapVars, pc, error, todo, id, dirs, others>>

\* the footer, written when the message loop is over
EndConversation ==
    /\ pc = "messages"
    /\ msg_i > Len(conversations[id])
    /\ docs' = [docs EXCEPT ![id].chunks = Append(@, Chunk("end", 0, <<>>, <<>>))]
    /\ todo' = todo \ {id}
    /\ pc' = "loop"
    /\ UNCHANGED <<db, mapVars, error, id, msg_i, log, dirs, copied, others>>

\* the conversation loop is over
Finish ==
    /\ pc = "loop"
    /\ todo = {}
    /\ pc' = "done"
    /\ UNCHANGED <<db, mapVars, error, todo, id, msg_i, log, docs, dirs, copied, others>>

\* ------------------------------------------------------------------------
\* Specification SpecNorm: the Identifier Normalizer
\* ------------------------------------------------------------------------

NormInit ==
    /\ n_pc = "input"
    /\ phone_number \in PhoneInputs
    /\ n_out = <<>>
    /\ n_out2 = <<>>

Normalize ==
    /\ n_pc = "input"
    /\ n_out' = normalize_phone_number(phone_number)
    /\ n_pc' = "once"
    /\ UNCHANGED <<phone_number, n_out2, keyVars, scaleVars, mainVars>>

Renormalize ==
    /\ n_pc = "once"
    /\ n_out2' = normalize_phone_number(n_out)
    /\ n_pc' = "twice"
    /\ UNCHANGED <<phone_number, n_out, keyVars, scaleVars, mainVars>>

NormIdle == n_pc = "idle" /\ phone_number = <<>> /\ n_out = <<>> /\ n_out2 = <<>>

\* ------------------------------------------------------------------------
\* Specification SpecKey: the Attachment Key Deriver
\* ------------------------------------------------------------------------

KeyInit ==
    /\ k_pc = "input"
    /\ name \in PathInputs
    /\ k_new_name = <<>>
    /\ k_hashed = <<>>
    /\ k_warned = FALSE

Convert ==
    /\ k_pc = "input"
    /\ k_new_name' = new_name(name)
    /\ k_warned' = warns(name)
    /\ k_hashed' = convert_attachment_name(name)
    /\ k_pc' = "done"
    /\ UNCHANGED <<name, normVars, scaleVars, mainVars>>

KeyIdle == k_pc = "idle" /\ name = <<>> /\ k_new_name = <<>> /\ k_hashed = <<>> /\ k_warned = FALSE

\* ------------------------------------------------------------------------
\* Specification SpecScale: timestamp scaling in get_chat_coversations
\* ------------------------------------------------------------------------

ScaleInit ==
    /\ s_pc = "input"
    /\ \E n \in 1..MaxRows : \E f \in DatedRows(n) : result = DatedResult(f)
    /\ s_conversations = EmptyMap

Scale ==
    /\ s_pc = "input"
    /\ s_conversations' = get_chat_coversations(result)
    /\ s_pc' = "done"
    /\ UNCHANGED <<result, normVars, keyVars, mainVars>>

ScaleIdle == s_pc = "idle" /\ result = <<>> /\ s_conversations = EmptyMap

\* ------------------------------------------------------------------------
\* Specifications
\* ------------------------------------------------------------------------

Next == Extract \/ StartConversation \/ ProcessMessage \/ EndConversation \/ Finish

Init == MainInit /\ NormIdle /\ KeyIdle /\ ScaleIdle

Spec == Init /\ [][Next]_vars

RenderSpecInit == RenderInit /\ NormIdle /\ KeyIdle /\ ScaleIdle

SpecRender == RenderSpecInit /\ [][Next]_vars

NormNext == Normalize \/ Renormalize

NormSpecInit == NormInit /\ KeyIdle /\ ScaleIdle /\ MainIdle

SpecNorm == NormSpecInit /\ [][NormNext]_vars

KeyNext == Convert

KeySpecInit == KeyInit /\ NormIdle /\ ScaleIdle /\ MainIdle

SpecKey == KeySpecInit /\ [][KeyNext]_vars

ScaleNext == Scale

ScaleSpecInit == ScaleInit /\ NormIdle /\ KeyIdle /\ MainIdle

SpecScale == ScaleSpecInit /\ [][ScaleNext]_vars

\* ------------------------------------------------------------------------
\* Properties
\* ------------------------------------------------------------------------

\* C1: for every path that starts with '/var/mobile/' or with '~/', the string
\* that is hashed is 'MediaDomain-' followed by the path with exactly that
\* leading prefix removed and the remainder unchanged.
C1_ExactPrefixRemoval ==
    k_pc = "done" =>
        /\ StartsWith(name, VarMobilePrefix) =>
               k_new_name = MediaDomain \o SubSeq(name, Len(VarMobilePrefix) + 1, Len(name))
        /\ (~StartsWith(name, VarMobilePrefix) /\ StartsWith(name, TildePrefix)) =>
               k_new_name = MediaDomain \o SubSeq(name, Len(TildePrefix) + 1, Len(name))

\* the contacts-store rows with the key each is stored under, in insertion order
KeyedStoreRows ==
    [i \in 1..Len(db.ab_email) |-> [key |-> db.ab_email[i].value, row |-> db.ab_email[i]]]
    \o [i \in 1..Len(db.ab_phone) |->
           [key |-> normalize_phone_number(db.ab_phone[i].value), row |-> db.ab_phone[i]]]

\* the display name the fallback chain of the specification gives a contact key
ChainName(key) ==
    LET hits == {i \in 1..Len(KeyedStoreRows) : KeyedStoreRows[i].key = key}
    IN  IF hits = {} THEN key
        ELSE LET r == KeyedStoreRows[CHOOSE i \in hits : \A j \in hits : j <= i].row
             IN  IF r.first # None /\ r.last # None THEN r.first[1] \o <<" ">> \o r.last[1]
                 ELSE IF r.first # None THEN r.first[1]
                 ELSE IF r.last # None THEN r.last[1]
                 ELSE IF r.org # None THEN r.org[1]
                 ELSE key

\* C2: the display name resolved for the contact of every handle is the name
\* of the fallback chain (first and last name, else organization, else the
\* contact key), so it is always a string and never an absent value.
C2_NameFallbackChain ==
    pc \in {"loop", "messages", "done", "crashed"} =>
        \A h \in DOMAIN handle_contact_map :
            resolve(handle_contact_map[h]) = Some(ChainName(handle_contact_map[h]))

\* the number of messages of conversation cid the message loop has been through
Processed(cid) ==
    IF pc = "messages" /\ id = cid THEN msg_i - 1 ELSE Len(conversations[cid])

\* the message chunks of a document, in the order written
MessageChunks(cid) == SelectSeq(docs[cid].chunks, LAMBDA c : c.kind = "message")

\* the messages among the first n of conversation cid that do not raise
Surviving(cid, n) ==
    SelectSeq(SubSeq(conversations[cid], 1, n), LAMBDA m : ~sender_raises(m))

\* C3: every message of a conversation that raises is logged and skipped,
\* every other message gone through so far, before or after it, has its block
\* in the document in order, and the finished document ends with the footer.
C3_PerMessageIsolation ==
    \A cid \in DOMAIN docs :
        docs[cid].chunks # <<>> =>
            LET n == Processed(cid)
                written == MessageChunks(cid)
                expected == Surviving(cid, n)
                chunks == docs[cid].chunks
            IN  /\ Len(written) = Len(expected)
                /\ \A i \in 1..Len(written) : written[i].message_id = expected[i].message_id
                /\ \A i \in 1..n :
                       sender_raises(conversations[cid][i]) =>
                           \E l \in 1..Len(log) :
                               /\ log[l].level = "exception"
                               /\ log[l].message_id = conversations[cid][i].message_id
                /\ ~(pc = "messages" /\ id = cid) => chunks[Len(chunks)].kind = "end"

\* C3 witness: a finished document of a three-message conversation whose
\* second message raised holds exactly the blocks of messages 1 and 3.
C3_Witness ==
    \E cid \in DOMAIN docs :
        /\ Len(conversations[cid]) = 3
        /\ ~sender_raises(conversations[cid][1])
        /\ sender_raises(conversations[cid][2])
        /\ ~sender_raises(conversations[cid][3])
        /\ Len(docs[cid].chunks) = 4
        /\ docs[cid].chunks[1].kind = "start"
        /\ docs[cid].chunks[2].message_id = conversations[cid][1].message_id
        /\ docs[cid].chunks[3].message_id = conversations[cid][3].message_id
        /\ docs[cid].chunks[4].kind = "end"

\* C4: when the run ends, every conversation of the conversations map has its
\* document (header first, footer last) and its attachment directory.
C4_OneDocumentPerConversation ==
    pc \in {"done", "crashed"} =>
        \A cid \in DOMAIN conversations :
            /\ cid \in DOMAIN docs
            /\ docs[cid].filebase \in dirs
            /\ Len(docs[cid].chunks) >= 2
            /\ docs[cid].chunks[1].kind = "start"
            /\ docs[cid].chunks[Len(docs[cid].chunks)].kind = "end"

\* the reference algorithm of the Identifier Normalizer
RefNormalize(x) ==
    LET p0 == IF x # <<>> /\ Head(x) = "+" THEN Tail(x) ELSE x
        p1 == SelectSeq(p0, LAMBDA ch : ch \notin {"(", ")", "-", ".", " ", NBSP})
    IN  IF Len(p1) = 10 THEN <<"1">> \o p1 ELSE p1

\* C5: normalize_phone_number returns what the reference algorithm returns:
\* at most one leading '+' removed, then every separator deleted, then a '1'
\* prepended exactly when 10 characters remain.
C5_MatchesReference ==
    n_pc \in {"once", "twice"} => n_out = RefNormalize(phone_number)

\* C6: the Normalizer applied to its own output returns that output unchanged.
C6_Idempotent ==
    n_pc = "twice" => n_out2 = n_out

\* the position of attachment row j in the list of its message
AttachmentIndex(j) ==
    Cardinality({i \in 1..j : db.attachment[i].message_id = db.attachment[j].message_id})

\* the (derived filename, original basename) pair the extractor made of row j
AttachmentEntry(j) == attachments[db.attachment[j].message_id][AttachmentIndex(j)]

\* the attachment rows whose path has neither device root prefix
BadRows ==
    {j \in 1..Len(db.attachment) :
        /\ ~StartsWith(db.attachment[j].filename, VarMobilePrefix)
        /\ ~StartsWith(db.attachment[j].filename, TildePrefix)}

Extracted == pc \in {"loop", "messages", "done", "crashed"}

\* a warning naming the path of row j is in the log
WarnedAbout(j) ==
    \E l \in 1..Len(log) :
        /\ log[l].level = "warning"
        /\ log[l].message_id = db.attachment[j].message_id
        /\ log[l].text = db.attachment[j].filename

\* the message chunks written for the message of attachment row j
ChunksOfRow(j) ==
    {c \in UNION {{docs[cid].chunks[i] : i \in 1..Len(docs[cid].chunks)} : cid \in DOMAIN docs} :
        c.kind = "message" /\ c.message_id = db.attachment[j].message_id}

\* a chunk shows the attachment called unique as missing
ShowsMissing(c, unique) ==
    \E i \in 1..Len(c.parts) :
        /\ c.parts[i].cls = "attachment"
        /\ c.parts[i].tag = "missing"
        /\ c.parts[i].strs = <<unique>>

\* the messages gone through so far whose sender lookup did not raise all
\* have their block in the document
NotSkipped(j) ==
    \A cid \in DOMAIN docs :
        docs[cid].chunks # <<>> =>
            \A i \in 1..Processed(cid) :
                (/\ conversations[cid][i].message_id = db.attachment[j].message_id
                 /\ ~sender_raises(conversations[cid][i]))
                => \E c \in ChunksOfRow(j) : TRUE

\* C7 (as stated): for a path with neither prefix the Deriver logs a warning
\* and returns the empty string as the derived key, and the message block
\* shows the attachment as missing, with no file copied for it.
C7_BadPathEmptyKey ==
    Extracted =>
        \A j \in BadRows :
            /\ WarnedAbout(j)
            /\ AttachmentEntry(j)[1] = <<>>
            /\ \A c \in ChunksOfRow(j) :
                   ShowsMissing(c, AttachmentEntry(j)[1] \o <<"-">> \o AttachmentEntry(j)[2])
            /\ NotSkipped(j)

\* C7 (amended): for a path with neither prefix the Deriver logs a warning
\* and returns the digest of the empty string, which is not the empty string;
\* the message block shows the attachment as missing, with no file copied for
\* it, whenever the backup holds no file of that digest name in either layout;
\* the bad path never makes the message be skipped.
C7_BadPathDigestOfEmpty ==
    Extracted =>
        \A j \in BadRows :
            LET key == AttachmentEntry(j)[1]
                unique == key \o <<"-">> \o Basename(db.attachment[j].filename)
                absent == <<key>> \notin db.backup /\ <<first_two(key), key>> \notin db.backup
            IN  /\ WarnedAbout(j)
                /\ key = sha1_hexdigest(<<>>)
                /\ key # <<>>
                /\ absent =>
                       /\ \A c \in ChunksOfRow(j) : ShowsMissing(c, unique)
                       /\ \A f \in copied : f.name # unique
                /\ NotSkipped(j)

\* C7 witness: a written block shows the attachment of a bad path as missing,
\* under the name made of the digest of the empty string.
C7_Witness ==
    \E j \in BadRows :
        /\ Extracted
        /\ WarnedAbout(j)
        /\ \E c \in ChunksOfRow(j) :
               ShowsMissing(c, sha1_hexdigest(<<>>) \o <<"-">> \o Basename(db.attachment[j].filename))

\* the documents whose header has been written
WithHeader == {cid \in DOMAIN docs : docs[cid].chunks # <<>>}

Digits == <<"0", "1", "2", "3", "4", "5", "6", "7", "8", "9">>

RECURSIVE IntStr(_)
\* '%s' % n for a natural number n
IntStr(n) == IF n < 10 THEN <<Digits[n + 1]>> ELSE IntStr(n \div 10) \o <<Digits[(n % 10) + 1]>>

\* a display name with its spaces converted to dashes
Dashed(s) == [i \in 1..Len(s) |-> IF s[i] = " " THEN "-" ELSE s[i]]

RECURSIVE Concat(_, _)
\* the strings of a list, each followed by sep except the last
Concat(list, sep) ==
    IF list = <<>> THEN <<>>
    ELSE IF Len(list) = 1 THEN Dashed(list[1])
    ELSE Dashed(list[1]) \o sep \o Concat(Tail(list), sep)

\* the (derived filename, original basename) pairs of the messages of cid
EntriesOf(cid) ==
    UNION {{attachments[m][i] : i \in 1..Len(attachments[m])} :
           m \in {conversations[cid][k].message_id : k \in 1..Len(conversations[cid])}
                 \cap DOMAIN attachments}

\* every copied file lies in the directory of a document and is named
\* '<derived-filename>-<original-basename>' after an attachment of it
CopiesNamed ==
    \A f \in copied :
        \E cid \in DOMAIN docs :
            /\ f.dir = docs[cid].filebase
            /\ \E e \in EntriesOf(cid) : f.name = e[1] \o <<"-">> \o e[2]

\* C8 (as stated): the document is '<chat-id>_<names>.html' with the chat's
\* internal integer id and the participant names, spaces converted to dashes,
\* joined to each other by dashes; the directory has the same base name and
\* the copied attachments are named '<derived-filename>-<original-basename>'.
C8_NamingAsStated ==
    /\ \A cid \in WithHeader :
           /\ docs[cid].filename =
                  IntStr(conversations[cid][1].chat_id) \o <<"_">>
                      \o Concat(docs[cid].chunks[1].title, <<"-">>) \o HtmlExt
           /\ docs[cid].filebase \o HtmlExt = docs[cid].filename
           /\ docs[cid].filebase \in dirs
    /\ CopiesNamed

\* C8 (amended): the document is '<chat_identifier>_<names>.html' with the
\* chat's string identifier (the key of the conversations map) and the
\* participant names of the header, spaces converted to dashes, joined to each
\* other by underscores; the directory has the same base name and the copied
\* attachments are named '<derived-filename>-<original-basename>'.
C8_Naming ==
    /\ \A cid \in WithHeader :
           /\ docs[cid].filename =
                  cid \o <<"_">> \o Concat(docs[cid].chunks[1].title, <<"_">>) \o HtmlExt
           /\ docs[cid].filebase \o HtmlExt = docs[cid].filename
           /\ docs[cid].filebase \in dirs
    /\ CopiesNamed

\* C8 witness: a document of two participants, one with a space in the name,
\* with an attachment copied into its directory.
C8_Witness ==
    \E cid \in WithHeader :
        /\ Len(docs[cid].chunks[1].title) = 2
        /\ \E i \in 1..2 : \E k \in 1..Len(docs[cid].chunks[1].title[i]) :
               docs[cid].chunks[1].title[i][k] = " "
        /\ \E f \in copied : f.dir = docs[cid].filebase

\* the display names the participant handles of cid resolve to
ResolvedNames(cid) ==
    {Str(resolve(handle_contact_map[contacts_in_chat[cid][i]])) :
        i \in 1..Len(contacts_in_chat[cid])}

\* the lists holding every element of S exactly once
Orderings(S) ==
    {f \in [1..Cardinality(S) -> S] : \A a, b \in 1..Cardinality(S) : f[a] = f[b] => a = b}

\* C9: the file base name and the header of every conversation name each
\* display name its participant handles resolve to exactly once: no name is
\* repeated and no distinct name is lost.
C9_ParticipantsDeduplicated ==
    \A cid \in DOMAIN docs :
        \E names \in Orderings(ResolvedNames(cid)) :
            /\ docs[cid].filebase = cid \o <<"_">> \o Concat(names, <<"_">>)
            /\ cid \in WithHeader => docs[cid].chunks[1].title = names

\* C9 witness: a document whose conversation has two participant handles
\* with different contacts that resolve to one display name.
C9_Witness ==
    \E cid \in WithHeader :
        /\ Len(contacts_in_chat[cid]) = 2
        /\ handle_contact_map[contacts_in_chat[cid][1]] # handle_contact_map[contacts_in_chat[cid][2]]
        /\ Len(docs[cid].chunks[1].title) = 1

\* the timestamp rule: a value above 10^9 becomes its integer quotient by 10^9
Downscaled(v) == IF v > 1000000000 THEN v \div 1000000000 ELSE v

\* the position of result row j in the list of its conversation
RowIndex(j) ==
    Cardinality({i \in 1..j : result[i].chat_identifier = result[j].chat_identifier})

\* C10: every message row appears in its conversation with the sent date and
\* the read date each downscaled by the rule on its own value alone, and with
\* every other field unchanged.
C10_TimestampScaling ==
    s_pc = "done" =>
        \A j \in 1..Len(result) :
            s_conversations[result[j].chat_identifier][RowIndex(j)] =
                [result[j] EXCEPT !.date = Downscaled(result[j].date),
                                  !.date_read = Downscaled(result[j].date_read)]

\* C10 witness: both dates of one row are above 10^9 and both are downscaled,
\* and a row with a sent date above and a read date below has only the first
\* downscaled.
C10_Witness ==
    /\ s_pc = "done"
    /\ Len(result) = 2
    /\ result[1].date = 2000000000 /\ result[1].date_read = 1000000001
    /\ result[2].date = 2000000000 /\ result[2].date_read = 500000000
    /\ result[1].chat_identifier = result[2].chat_identifier
    /\ s_conversations[result[1].chat_identifier][1].date = 2
    /\ s_conversations[result[1].chat_identifier][1].date_read = 1
    /\ s_conversations[result[1].chat_identifier][2].date = 2
    /\ s_conversations[result[1].chat_identifier][2].date_read = 500000000

\* the message chunks of every document, each with its conversation
WrittenBlocks ==
    UNION {{[cid |-> cid, chunk |-> docs[cid].chunks[i]] :
               i \in {k \in 1..Len(docs[cid].chunks) : docs[cid].chunks[k].kind = "message"}} :
           cid \in WithHeader}

\* the (derived filename, original basename) pairs of one message
EntriesOfMessage(message_id) ==
    IF message_id \in DOMAIN attachments THEN attachments[message_id] ELSE <<>>

\* the backup holds no file of that name, flat or under its first two characters
AbsentKey(k) == <<k>> \notin db.backup /\ <<first_two(k), k>> \notin db.backup

\* the parts of a block that stand for its attachments, one per attachment
AttachmentEntries(c) ==
    SelectSeq(c.parts, LAMBDA q : q.cls = "attachment" /\ q.tag \in {"missing", "link"})

HasReadTime(c) == \E i \in 1..Len(c.parts) : c.parts[i].cls = "readtime"

\* the row of the message table a block was written for
RowOf(message_id) ==
    db.message[CHOOSE i \in 1..Len(db.message) : db.message[i].message_id = message_id]

\* the read-time condition on the stored row: service, read flag, scaled offset
ReadGate(row) ==
    /\ row.service = IMessage
    /\ row.is_read = 1
    /\ Downscaled(row.date_read) # 0

\* C11: every attachment of a written block whose derived filename is in the
\* backup in neither layout is shown as 'Missing attachment' and has no file
\* copied; the attachments after it and the read-time marker of the message
\* are still there; a file that exists is copied, from the flat layout when it
\* is there, and linked; a conversation whose attachments are all missing has
\* its directory, with nothing in it.
C11_MissingAttachment ==
    /\ \A b \in WrittenBlocks :
           LET es == EntriesOfMessage(b.chunk.message_id)
               ps == AttachmentEntries(b.chunk)
               filebase == docs[b.cid].filebase
           IN  /\ Len(ps) = Len(es)
               /\ \A i \in 1..Len(es) :
                      LET unique == es[i][1] \o <<"-">> \o es[i][2]
                      IN  IF AbsentKey(es[i][1])
                          THEN /\ ps[i].tag = "missing"
                               /\ ps[i].strs = <<unique>>
                               /\ ~\E f \in copied : f.dir = filebase /\ f.name = unique
                          ELSE /\ ps[i].tag = "link"
                               /\ ps[i].strs = <<filebase \o <<"/">> \o unique, unique>>
                               /\ \E f \in copied :
                                      /\ f.dir = filebase
                                      /\ f.name = unique
                                      /\ f.from = IF <<es[i][1]>> \in db.backup
                                                  THEN <<es[i][1]>>
                                                  ELSE <<first_two(es[i][1]), es[i][1]>>
               /\ ReadGate(RowOf(b.chunk.message_id)) => HasReadTime(b.chunk)
    /\ \A cid \in WithHeader :
           /\ \A i \in 1..Processed(cid) :
                  ~sender_raises(conversations[cid][i]) =>
                      \E b \in WrittenBlocks :
                          b.cid = cid /\ b.chunk.message_id = conversations[cid][i].message_id
           /\ (\A e \in EntriesOf(cid) : AbsentKey(e[1])) =>
                  /\ docs[cid].filebase \in dirs
                  /\ ~\E f \in copied : f.dir = docs[cid].filebase

\* C11 witness: a block of two attachments, the first missing, the second in
\* the backup in both layouts and copied from the flat one, with its read time.
C11_Witness ==
    \E b \in WrittenBlocks :
        LET es == EntriesOfMessage(b.chunk.message_id)
            ps == AttachmentEntries(b.chunk)
        IN  /\ Len(es) = 2
            /\ Len(ps) = 2
            /\ AbsentKey(es[1][1])
            /\ ps[1].tag = "missing"
            /\ <<es[2][1]>> \in db.backup
            /\ <<first_two(es[2][1]), es[2][1]>> \in db.backup
            /\ ps[2].tag = "link"
            /\ \E f \in copied : f.name = es[2][1] \o <<"-">> \o es[2][2] /\ f.from = <<es[2][1]>>
            /\ HasReadTime(b.chunk)

\* C12: a written block has a read-time line exactly when the service of its
\* message is 'iMessage', its read flag is set and its read offset, after the
\* timestamp scaling, is not zero; the block of an 'SMS' message has none.
C12_ReadTimeGating ==
    \A b \in WrittenBlocks :
        LET row == RowOf(b.chunk.message_id)
        IN  /\ HasReadTime(b.chunk) <=> ReadGate(row)
            /\ row.service = SMS => ~HasReadTime(b.chunk)

\* C12 witness: a document with the block of an SMS message, read flag set and
\* read offset not zero, without a read-time line, and the block of an iMessage
\* message, read flag set and a nanosecond read offset, with one.
C12_Witness ==
    \E a \in WrittenBlocks, b \in WrittenBlocks :
        /\ a.cid = b.cid
        /\ RowOf(a.chunk.message_id).service = SMS
        /\ RowOf(a.chunk.message_id).is_read = 1
        /\ RowOf(a.chunk.message_id).date_read # 0
        /\ ~HasReadTime(a.chunk)
        /\ RowOf(b.chunk.message_id).service = IMessage
        /\ RowOf(b.chunk.message_id).is_read = 1
        /\ RowOf(b.chunk.message_id).date_read = 2000000000
        /\ \E i \in 1..Len(b.chunk.parts) :
               /\ b.chunk.parts[i].cls = "readtime"
               /\ b.chunk.parts[i].time = MAGIC_DATE_NUMBER + 2

====
